---- MODULE Spec2Model ----
(***************************************************************************)
(* Model of site2md's crawl orchestration (src/crawler.py): the URL        *)
(* normalizer, the content-fingerprint page store and the level-by-level   *)
(* breadth-first crawl loop of WebsiteCrawler.crawl_website; of async_main *)
(* around it (src/main.py) with the document generate_markdown assembles   *)
(* (src/markdown_generator.py); and of convert_to_markdown                 *)
(* (src/markdown_converter.py).                                            *)
(*                                                                         *)
(* A string is a sequence of one-character strings, so that parsing and    *)
(* rebuilding a URL is computed character by character as Python does.     *)
(***************************************************************************)
EXTENDS Integers, Sequences, FiniteSets, TLC

(***************************************************************************)
(* Python str primitives used by urllib.parse and normalize_url.           *)
(***************************************************************************)

\* s[i:] with a 0-based Python index i (i >= 0)
Drop(s, i) == SubSeq(s, i + 1, Len(s))

\* s[:i] with a 0-based Python index i (i >= 0)
Take(s, i) == SubSeq(s, 1, IF i < Len(s) THEN i ELSE Len(s))

\* s.startswith(p)
StartsWith(s, p) == Len(p) <= Len(s) /\ SubSeq(s, 1, Len(p)) = p

\* s.find(p, start): 0-based index of the first occurrence at or after start, -1 if none
FindFrom(s, p, start) ==
    LET hits == { i \in start .. (Len(s) - Len(p)) : SubSeq(s, i + 1, i + Len(p)) = p }
    IN  IF hits = {} THEN -1 ELSE CHOOSE i \in hits : \A j \in hits : i <= j

\* p in s
Contains(s, p) == FindFrom(s, p, 0) >= 0

\* s.replace(old, new): every non-overlapping occurrence, scanning left to right
RECURSIVE Replace(_, _, _)
Replace(s, old, new) ==
    LET i == FindFrom(s, old, 0)
    IN  IF i < 0 THEN s
        ELSE Take(s, i) \o new \o Replace(Drop(s, i + Len(old)), old, new)

\* str.lower() on one character
LowerChar(c) == IF c = "H" THEN "h" ELSE IF c = "A" THEN "a" ELSE c

\* str.lower()
Lower(s) == [i \in 1 .. Len(s) |-> LowerChar(s[i])]

\* the characters that delimit URL components
Delims == {":", "/", "#", "?"}

\* c in scheme_chars: letters, digits and "+-." ; every non-delimiter of the alphabet is one
IsSchemeChar(c) == c \notin Delims

\* c.isalpha(): "." is a scheme character but not a letter
IsAlpha(c) == c \notin Delims /\ c # "."

(***************************************************************************)
(* urllib.parse, as called by normalize_url.                               *)
(***************************************************************************)

\* the schemes of urllib.parse.uses_netloc that the modelled URLs use
uses_netloc == { <<"h","t","t","p">>, <<"w","s">> }

\* _splitnetloc(url, 2): the position of the first of "/?#" at or after index 2
NetlocEnd(url) ==
    LET ds == { i \in 2 .. (Len(url) - 1) : url[i + 1] \in {"/", "?", "#"} }
    IN  IF ds = {} THEN Len(url) ELSE CHOOSE i \in ds : \A j \in ds : i <= j

\* the index of the ":" that ends the scheme of url, -1 when url has no scheme
SchemeEnd(url) ==
    LET i == FindFrom(url, <<":">>, 0)
    IN  IF i > 0 /\ IsAlpha(url[1]) /\ (\A k \in 1 .. i : IsSchemeChar(url[k]))
        THEN i ELSE -1

\* urlsplit after the scheme and the netloc are taken off: fragment, query and path of url
SplitPath(scheme, netloc, url) ==
    LET f == FindFrom(url, <<"#">>, 0)
        u == IF f >= 0 THEN Take(url, f) ELSE url
        q == FindFrom(u, <<"?">>, 0)
    IN  [scheme |-> scheme, netloc |-> netloc,
         path |-> IF q >= 0 THEN Take(u, q) ELSE u,
         query |-> IF q >= 0 THEN Drop(u, q + 1) ELSE <<>>,
         fragment |-> IF f >= 0 THEN Drop(url, f + 1) ELSE <<>>]

\* urlsplit after the scheme is taken off: the netloc follows a leading "//"
SplitNetloc(scheme, url) ==
    SplitPath(scheme,
              IF StartsWith(url, <<"/", "/">>) THEN SubSeq(url, 3, NetlocEnd(url)) ELSE <<>>,
              IF StartsWith(url, <<"/", "/">>) THEN Drop(url, NetlocEnd(url)) ELSE url)

\* urlsplit given the index i of the scheme's end
SplitScheme(url, i) ==
    SplitNetloc(IF i > 0 THEN Lower(Take(url, i)) ELSE <<>>,
                IF i > 0 THEN Drop(url, i + 1) ELSE url)

\* urlsplit(url): the five components of a URL
urlsplit(url) == SplitScheme(url, SchemeEnd(url))

\* urlparse(url): urlsplit, no ";params" in the modelled alphabet
urlparse(url) == urlsplit(url)

\* urlunsplit((scheme, netloc, url, query, fragment))
urlunsplit(scheme, netloc, path, query, fragment) ==
    LET u1 == IF netloc # <<>> \/ (scheme # <<>> /\ scheme \in uses_netloc
                                   /\ ~StartsWith(path, <<"/", "/">>))
              THEN <<"/", "/">> \o netloc
                   \o (IF path # <<>> /\ path[1] # "/" THEN <<"/">> \o path ELSE path)
              ELSE path
        u2 == IF scheme # <<>> THEN scheme \o <<":">> \o u1 ELSE u1
        u3 == IF query # <<>> THEN u2 \o <<"?">> \o query ELSE u2
    IN  IF fragment # <<>> THEN u3 \o <<"#">> \o fragment ELSE u3

\* urlunparse of the components p with the fragment left out
Defragmented(p) == urlunsplit(p.scheme, p.netloc, p.path, p.query, <<>>)

\* urldefrag(url)[0]: the URL rebuilt from its components without the fragment
urldefrag(url) == IF Contains(url, <<"#">>) THEN Defragmented(urlparse(url)) ELSE url

(***************************************************************************)
(* WebsiteCrawler.normalize_url                                            *)
(***************************************************************************)

\* while '//' in normalized: normalized = normalized.replace('//', '/')
RECURSIVE CollapseSlashes(_)
CollapseSlashes(s) ==
    IF Contains(s, <<"/", "/">>)
    THEN CollapseSlashes(Replace(s, <<"/", "/">>, <<"/">>))
    ELSE s

\* normalized.replace('://', ':/').replace(':/', '://')
FixSeparator(s) == Replace(Replace(s, <<":", "/", "/">>, <<":", "/">>),
                           <<":", "/">>, <<":", "/", "/">>)

\* normalize_url from parsed on: the default path, the rebuilt string, the slash repairs
NormalizeParsed(parsed) ==
    FixSeparator(CollapseSlashes(
        parsed.scheme \o <<":", "/", "/">> \o parsed.netloc
        \o (IF parsed.path = <<>> THEN <<"/">> ELSE parsed.path)))

\* a faulty normalize_url: a URL with a fragment is returned as written
normalize_url_fragment(url) ==
    IF Contains(url, <<"#">>) THEN url ELSE NormalizeParsed(urlparse(urldefrag(url)))

\* normalize_url(url)
normalize_url(url) == NormalizeParsed(urlparse(urldefrag(url)))

(***************************************************************************)
(* The modelled site and configuration.                                    *)
(***************************************************************************)

\* the elements of a list
Range(s) == { s[i] : i \in 1 .. Len(s) }

HTTP == <<"h","t","t","p">>
HostA == HTTP \o <<":","/","/","a">>
HostB == HTTP \o <<":","/","/","b">>

\* the pages of the site
Home == HostA \o <<"/">>
PageX == HostA \o <<"/","x">>
PageXSlash == HostA \o <<"/","x","/">>
PageY == HostA \o <<"/","d","/","y">>

\* the start URL a user passes: the site root written without or with the trailing
\* slash, or a page under /d with a query
StartUrls == { HostA, Home, PageY \o <<"?","q">> }

\* the values of --scope: absent, the host, a path prefix
Scopes == { <<>>, HostA, HostA \o <<"/","d">> }

\* Markdown bodies a fetch can return (fit_markdown or raw_markdown), "" when both are empty
Mds == {"", "m1"}

\* result.metadata['title'] of the page the site serves at url: the page at /x/ has no
\* <title>, so its title is None, written "" here; the page at /d/y is titled "S", the
\* others "T"
SiteTitle(url) == IF url = PageXSlash THEN "" ELSE IF url = PageY THEN "S" ELSE "T"

\* largest max_depth explored
MaxDepthBound == 2

\* largest max_concurrency explored
MaxConcurrency == 2

\* result.links['internal'] of the page at url, as hrefs: what the site can serve there.
\* Home links to /d/y?q alone, to /x/ and /d/y?q, to all three pages, or to /x, /x#f and
\* a page on another host; /x links to /x/
\* or to /d/y?q; /x/ links to /x#f; /d/y carries an empty href, /x with and without a fragment,
\* a page on another host and a link home.
SiteLinks(url) ==
    IF url = Home
    THEN { << PageY \o <<"?","q">> >>,
           << PageXSlash, PageY \o <<"?","q">> >>,
           << PageX, PageXSlash, PageY \o <<"?","q">> >>,
           << PageX, PageX \o <<"#","f">>, HostB \o <<"/","x">> >> }
    ELSE IF url = PageX THEN { <<>>, << PageXSlash >>, << PageY \o <<"?","q">> >> }
    ELSE IF url = PageXSlash THEN { <<>>, << PageX \o <<"#","f">> >> }
    ELSE IF url = PageY
    THEN { <<>>, << <<>>, PageX \o <<"#","f">>, PageX, HostB \o <<"/","x">>, Home >> }
    ELSE { <<>> }

\* the CrawlResult objects arun_many can yield for url: a failed fetch, a result
\* without markdown_v2 (which still carries the page's links), a page
Results(url) ==
    { [success |-> FALSE, has_md |-> FALSE, md |-> "", links |-> <<>>] }
    \cup { [success |-> TRUE, has_md |-> FALSE, md |-> "", links |-> l] :
             l \in SiteLinks(url) }
    \cup { [success |-> TRUE, has_md |-> TRUE, md |-> m, links |-> l] :
             m \in Mds, l \in SiteLinks(url) }

\* a page record left in <output>/pages by an earlier run into the same directory
StaleUrl == HostA \o <<"/","o">>

\* the URL strings of the modelled configuration and site
UrlUniverse ==
    LET pages == { Home, PageX, PageXSlash, PageY }
    IN  StartUrls \cup pages \cup {StaleUrl}
        \cup UNION { UNION { Range(l) : l \in SiteLinks(p) } : p \in pages }

\* normalize_url tabulated over UrlUniverse
NormalizeTable == [u \in UrlUniverse |-> normalize_url(u)]

\* urlparse tabulated over UrlUniverse
ParseTable == [u \in UrlUniverse |-> urlparse(u)]

\* self.normalize_url(url), looked up when tabulated
Normalized(url) == IF url \in UrlUniverse THEN NormalizeTable[url] ELSE normalize_url(url)

\* urlparse(url), looked up when tabulated
Parsed(url) == IF url \in UrlUniverse THEN ParseTable[url] ELSE urlparse(url)

(***************************************************************************)
(* State.                                                                  *)
(***************************************************************************)

VARIABLES
    pc,                   \* position in crawl_website: "new", "loop", "level", "done"
    start_url,            \* the argument of crawl_website
    max_depth,            \* self.max_depth
    max_concurrency,      \* self.max_concurrency
    url_scope,            \* self.url_scope, <<>> when not given
    base_domain,          \* Parsed(start_url).netloc
    content_fingerprints, \* self.content_fingerprints
    canonical_urls,       \* self.canonical_urls: raw URL -> normalized URL
    files,                \* the JSON records this program wrote in self.pages_dir, by file name
    visited,              \* set of normalized URLs
    to_crawl,             \* list of normalized URLs
    current_level_urls,   \* list being crawled at current_depth
    next_level_urls,      \* list collected for current_depth + 1
    current_depth,
    all_pages,            \* in-memory map of the pages accepted in this run
    total_urls,
    processed_urls,
    pending,              \* URLs given to arun_many and not yet started by the dispatcher
    inflight,             \* URLs whose fetch is running
    ready,                \* URLs whose result is yielded and not yet processed
    returned,             \* the value crawl_website returns
    fetch_log,            \* history: <<url, depth>> of every fetch started, in order
    outcome,              \* history: url -> <<outcome, page content>> of each of its results
    rounds,               \* history: per crawl_website call, the number of arun_many calls
    n_in,                 \* pure-function harness: the input
    n_out,                \* pure-function harness: computed values
    n_pc,                 \* pure-function harness: position
    exit_code,            \* the status the process ends with, -1 while it runs
    document              \* what generate_markdown wrote: table of contents and body

crawl_vars == <<pc, start_url, max_depth, max_concurrency, url_scope, base_domain,
                content_fingerprints, canonical_urls, files, visited, to_crawl,
                current_level_urls, next_level_urls, current_depth, all_pages,
                total_urls, processed_urls, pending, inflight, ready, returned,
                fetch_log, outcome, rounds>>

norm_vars == <<n_in, n_out, n_pc>>

main_vars == <<exit_code, document>>

vars == <<crawl_vars, norm_vars, main_vars>>

\* the empty dict
EmptyMap == [k \in {} |-> {}]

\* the entries of d, and those of e under the keys d lacks
Merge(d, e) == [x \in DOMAIN d \cup DOMAIN e |-> IF x \in DOMAIN d THEN d[x] ELSE e[x]]

\* d[k] = v on a dict
Put(d, k, v) == [x \in DOMAIN d \cup {k} |-> IF x = k THEN v ELSE d[x]]

(***************************************************************************)
(* Page store: get_content_fingerprint, get_safe_filename, save_page,      *)
(* read_all_pages.                                                         *)
(***************************************************************************)

\* get_content_fingerprint(content): the MD5 digest, distinct contents give distinct digests
get_content_fingerprint(content) == <<"md5", content>>

\* get_safe_filename(url): "<path>_<md5(url)>.json", one name per URL
get_safe_filename(url) == <<"json", url>>

\* the hrefs of the reference section: each non-empty href once, in order of first occurrence
RECURSIVE References(_, _)
References(links, links_processed) ==
    IF links = <<>> THEN <<>>
    ELSE LET href == Head(links)
         IN  IF href # <<>> /\ href \notin links_processed
             THEN <<href>> \o References(Tail(links), links_processed \cup {href})
             ELSE References(Tail(links), links_processed)

\* page_content of process_result: the header, the Markdown body and the reference section
\* (the modelled results carry no images and no external links)
page_content(md, links) == <<"### content", md, References(links, {})>>

\* the record json.dump writes in save_page
page_data(url, title, content) ==
    [url |-> url, normalized_url |-> Normalized(url), title |-> title,
     content |-> content, fingerprint |-> get_content_fingerprint(content)]

\* save_page returns None: the content's fingerprint is already recorded
IsDuplicate(fps, content) == get_content_fingerprint(content) \in fps

\* the pages directory after save_page wrote its record (open(filepath, 'w') replaces)
SaveFile(fs, url, title, content) ==
    Put(fs, get_safe_filename(Normalized(url)), page_data(url, title, content))

\* the orders in which glob('*.json') can list the files of S
RECURSIVE Orders(_)
Orders(S) ==
    IF S = {} THEN { <<>> }
    ELSE UNION { { <<f>> \o o : o \in Orders(S \ {f}) } : f \in S }

\* what is left of a record whose write failed part-way: a file json.load cannot parse
PartialRecord(url) ==
    [url |-> url, normalized_url |-> Normalized(url), title |-> "", content |-> <<>>,
     fingerprint |-> <<>>]

\* the loop of read_all_pages over the files in the given order; a file that cannot be
\* parsed (except Exception) or has no fingerprint is passed over
RECURSIVE ReadLoop(_, _, _, _)
ReadLoop(fs, order, pages, unique_fingerprints) ==
    IF order = <<>> THEN pages
    ELSE LET d == fs[Head(order)]
         IN  IF d.fingerprint = <<>>
             THEN ReadLoop(fs, Tail(order), pages, unique_fingerprints)
             ELSE IF d.fingerprint \notin unique_fingerprints
             THEN ReadLoop(fs, Tail(order),
                           IF d.url # <<>> /\ d.title # "" /\ d.content # <<>>
                           THEN Put(pages, d.normalized_url, <<d.title, d.content>>)
                           ELSE pages,
                           unique_fingerprints \cup {d.fingerprint})
             ELSE ReadLoop(fs, Tail(order), pages, unique_fingerprints)

\* read_all_pages() when glob lists the files in the given order
read_all_pages(fs, order) == ReadLoop(fs, order, EmptyMap, {})

\* what read_all_pages() can return on the directory fs, over the orders of glob
ReadBacks(fs) == { read_all_pages(fs, order) : order \in Orders(DOMAIN fs) }

(***************************************************************************)
(* collect_links                                                           *)
(***************************************************************************)

\* the link's normalized URL passes the host test and the scope test of collect_links
InScope(normalized_url, scope, domain) ==
    /\ Parsed(normalized_url).netloc = domain
    /\ (scope = <<>> \/ StartsWith(normalized_url, scope))

\* a faulty collect_links loop body: membership is tested on the href as written
CollectOneRaw(acc, next_url, scope, domain) ==
    LET normalized_url == Normalized(next_url)
    IN  IF next_url = <<>> THEN acc
        ELSE IF next_url \in acc.visited THEN acc
        ELSE IF ~InScope(normalized_url, scope, domain) THEN acc
        ELSE IF next_url \notin Range(acc.to_crawl)
        THEN [new_urls |-> Append(acc.new_urls, normalized_url),
              to_crawl |-> Append(acc.to_crawl, normalized_url),
              visited |-> acc.visited \cup {normalized_url},
              canonical_urls |-> Put(acc.canonical_urls, next_url, normalized_url)]
        ELSE acc

\* a faulty collect_links loop body: the host test and the scope test are left out
CollectOneNoScope(acc, next_url, scope, domain) ==
    LET normalized_url == Normalized(next_url)
    IN  IF next_url = <<>> THEN acc
        ELSE IF normalized_url \in acc.visited THEN acc
        ELSE IF normalized_url \notin Range(acc.to_crawl)
        THEN [new_urls |-> Append(acc.new_urls, normalized_url),
              to_crawl |-> Append(acc.to_crawl, normalized_url),
              visited |-> acc.visited \cup {normalized_url},
              canonical_urls |-> Put(acc.canonical_urls, next_url, normalized_url)]
        ELSE acc

\* a faulty collect_links loop body: the queued URL is not recorded in visited
CollectOneForget(acc, next_url, scope, domain) ==
    LET normalized_url == Normalized(next_url)
    IN  IF next_url = <<>> THEN acc
        ELSE IF normalized_url \in acc.visited THEN acc
        ELSE IF ~InScope(normalized_url, scope, domain) THEN acc
        ELSE IF normalized_url \notin Range(acc.to_crawl)
        THEN [new_urls |-> Append(acc.new_urls, normalized_url),
              to_crawl |-> Append(acc.to_crawl, normalized_url),
              visited |-> acc.visited,
              canonical_urls |-> Put(acc.canonical_urls, next_url, normalized_url)]
        ELSE acc

\* the body of the loop over links['internal'] for one link
CollectOne(acc, next_url, scope, domain) ==
    LET normalized_url == Normalized(next_url)
    IN  IF next_url = <<>> THEN acc
        ELSE IF normalized_url \in acc.visited THEN acc
        ELSE IF ~InScope(normalized_url, scope, domain) THEN acc
        ELSE IF normalized_url \notin Range(acc.to_crawl)
        THEN [new_urls |-> Append(acc.new_urls, normalized_url),
              to_crawl |-> Append(acc.to_crawl, normalized_url),
              visited |-> acc.visited \cup {normalized_url},
              canonical_urls |-> Put(acc.canonical_urls, next_url, normalized_url)]
        ELSE acc

\* the loop over links['internal']
RECURSIVE CollectLoop(_, _, _, _)
CollectLoop(acc, links, scope, domain) ==
    IF links = <<>> THEN acc
    ELSE CollectLoop(CollectOne(acc, Head(links), scope, domain), Tail(links), scope, domain)

\* a faulty collect_links: the depth test lets the links of a page at max_depth through
collect_links_late(links, depth, maxd, tc, vis, canon, scope, domain) ==
    LET acc0 == [new_urls |-> <<>>, to_crawl |-> tc, visited |-> vis, canonical_urls |-> canon]
    IN  IF depth <= maxd THEN CollectLoop(acc0, links, scope, domain) ELSE acc0

\* collect_links(processed_result, current_depth, to_crawl, visited, url_scope, base_domain)
collect_links(links, depth, maxd, tc, vis, canon, scope, domain) ==
    LET acc0 == [new_urls |-> <<>>, to_crawl |-> tc, visited |-> vis, canonical_urls |-> canon]
    IN  IF depth < maxd THEN CollectLoop(acc0, links, scope, domain) ELSE acc0

(***************************************************************************)
(* crawl_website                                                           *)
(***************************************************************************)

\* the record an earlier run into the same output directory left behind (async_main
\* with --force does not clear an existing directory)
StaleFiles == Put(EmptyMap, get_safe_filename(StaleUrl),
                  page_data(StaleUrl, "T", page_content("m1", <<>>)))

\* a faulty dispatcher configuration: one permit more than max_concurrency
max_session_permit_over(c) == c + 1

\* MemoryAdaptiveDispatcher(max_session_permit=self.max_concurrency)
max_session_permit(c) == c

\* a WebsiteCrawler as constructed by async_main, before crawl_website is called
CrawlInit ==
    /\ pc = "new"
    /\ start_url \in StartUrls
    /\ max_depth \in 0 .. MaxDepthBound
    /\ max_concurrency \in 1 .. MaxConcurrency
    /\ url_scope \in Scopes
    /\ files = EmptyMap
    /\ base_domain = <<>>
    /\ content_fingerprints = {}
    /\ canonical_urls = EmptyMap
    /\ visited = {}
    /\ to_crawl = <<>>
    /\ current_level_urls = <<>>
    /\ next_level_urls = <<>>
    /\ current_depth = 0
    /\ all_pages = EmptyMap
    /\ total_urls = 0
    /\ processed_urls = 0
    /\ pending = <<>>
    /\ inflight = {}
    /\ ready = {}
    /\ returned = EmptyMap
    /\ fetch_log = <<>>
    /\ outcome = EmptyMap
    /\ rounds = <<>>

\* no call of a pure function (normalize_url, convert_to_markdown) under study
NormIdle ==
    /\ n_in = <<>>
    /\ n_out = [once |-> <<>>, twice |-> <<>>, frag |-> <<>>, slash |-> <<>>]
    /\ n_pc = "idle"

\* async_main before crawl_website returns: no status, no document
MainIdle ==
    /\ exit_code = -1
    /\ document = [written |-> FALSE, toc |-> <<>>, body |-> <<>>]

Init == CrawlInit /\ NormIdle /\ MainIdle

\* crawl_website up to the while loop: default scope, base domain, seeding of the frontier
CrawlStart ==
    /\ pc = "new"
    /\ url_scope' = IF url_scope = <<>>
                    THEN Parsed(start_url).scheme \o <<":", "/", "/">> \o Parsed(start_url).netloc
                    ELSE url_scope
    /\ base_domain' = Parsed(start_url).netloc
    /\ canonical_urls' = Put(canonical_urls, start_url, Normalized(start_url))
    /\ visited' = { Normalized(start_url) }
    /\ to_crawl' = << Normalized(start_url) >>
    /\ current_level_urls' = << Normalized(start_url) >>
    /\ current_depth' = 0
    /\ all_pages' = EmptyMap
    /\ total_urls' = 1
    /\ processed_urls' = 0
    /\ pc' = "loop"
    /\ rounds' = Append(rounds, 0)
    /\ UNCHANGED <<start_url, max_depth, max_concurrency, content_fingerprints, files,
                   next_level_urls, pending, inflight, ready, returned, fetch_log, outcome>>
    /\ UNCHANGED <<norm_vars, main_vars>>

\* a faulty loop body: arun_many is given every URL queued so far, not the current level
LevelStartAll ==
    /\ pc = "loop"
    /\ current_level_urls # <<>> /\ current_depth <= max_depth
    /\ next_level_urls' = <<>>
    /\ pending' = to_crawl
    /\ pc' = "level"
    /\ rounds' = [rounds EXCEPT ![Len(rounds)] = @ + 1]
    /\ UNCHANGED <<start_url, max_depth, max_concurrency, url_scope, base_domain,
                   content_fingerprints, canonical_urls, files, visited, to_crawl,
                   current_level_urls, current_depth, all_pages, total_urls,
                   processed_urls, inflight, ready, returned, fetch_log, outcome>>
    /\ UNCHANGED <<norm_vars, main_vars>>

\* the loop condition holds: arun_many is called with the current level
LevelStart ==
    /\ pc = "loop"
    /\ current_level_urls # <<>> /\ current_depth <= max_depth
    /\ next_level_urls' = <<>>
    /\ pending' = current_level_urls
    /\ pc' = "level"
    /\ rounds' = [rounds EXCEPT ![Len(rounds)] = @ + 1]
    /\ UNCHANGED <<start_url, max_depth, max_concurrency, url_scope, base_domain,
                   content_fingerprints, canonical_urls, files, visited, to_crawl,
                   current_level_urls, current_depth, all_pages, total_urls,
                   processed_urls, inflight, ready, returned, fetch_log, outcome>>
    /\ UNCHANGED <<norm_vars, main_vars>>

\* the dispatcher starts the fetch of the next URL of the level when a session permit is free
StartFetch ==
    /\ pc = "level"
    /\ pending # <<>>
    /\ Cardinality(inflight) < max_session_permit(max_concurrency)
    /\ inflight' = inflight \cup { Head(pending) }
    /\ pending' = Tail(pending)
    /\ fetch_log' = Append(fetch_log, <<Head(pending), current_depth>>)
    /\ UNCHANGED <<pc, start_url, max_depth, max_concurrency, url_scope, base_domain,
                   content_fingerprints, canonical_urls, files, visited, to_crawl,
                   current_level_urls, next_level_urls, current_depth, all_pages,
                   total_urls, processed_urls, ready, returned, outcome>>
    /\ UNCHANGED <<norm_vars, main_vars, rounds>>

\* a fetch ends (with a page or with a failure) and its result is queued for the async for
FetchDone(u) ==
    /\ pc = "level"
    /\ u \in inflight
    /\ inflight' = inflight \ {u}
    /\ ready' = ready \cup {u}
    /\ UNCHANGED <<pc, start_url, max_depth, max_concurrency, url_scope, base_domain,
                   content_fingerprints, canonical_urls, files, visited, to_crawl,
                   current_level_urls, next_level_urls, current_depth, all_pages,
                   total_urls, processed_urls, pending, returned, fetch_log, outcome>>
    /\ UNCHANGED <<norm_vars, main_vars, rounds>>

\* the history of outcomes of url, extended by kind and the page content built from the
\* result (<<>> when none was built)
Record(o, url, kind, content) ==
    Put(o, url, (IF url \in DOMAIN o THEN o[url] ELSE <<>>) \o << <<kind, content>> >>)

\* a faulty iteration of the async for: collect_links also runs on a result for which
\* process_result returned None before save_page
ProcessResultCollectAll(u, r) ==
    /\ pc = "level"
    /\ u \in ready
    /\ ready' = ready \ {u}
    /\ processed_urls' = processed_urls + 1
    /\ IF ~r.success \/ ~r.has_md
       THEN LET c == collect_links(r.links, current_depth, max_depth, to_crawl, visited,
                                   canonical_urls, url_scope, base_domain)
            IN  /\ outcome' = Record(outcome, u, "Failed", <<>>)
                /\ to_crawl' = c.to_crawl
                /\ visited' = c.visited
                /\ canonical_urls' = c.canonical_urls
                /\ next_level_urls' = next_level_urls \o c.new_urls
                /\ total_urls' = total_urls + Len(c.new_urls)
                /\ UNCHANGED <<content_fingerprints, files, all_pages>>
       ELSE IF IsDuplicate(content_fingerprints, page_content(r.md, r.links))
       THEN \* save_page returns None
            /\ outcome' = Record(outcome, u, "Duplicate", page_content(r.md, r.links))
                    /\ UNCHANGED <<content_fingerprints, canonical_urls, files, visited, to_crawl,
                           next_level_urls, all_pages, total_urls>>
       ELSE LET content == page_content(r.md, r.links)
                page_title == SiteTitle(u)
                canon1 == Put(canonical_urls, u, Normalized(u))
                c == collect_links(r.links, current_depth, max_depth, to_crawl, visited,
                                   canon1, url_scope, base_domain)
            IN  /\ outcome' = Record(outcome, u, "Accepted", content)
                /\ content_fingerprints' =
                       content_fingerprints \cup { get_content_fingerprint(content) }
                /\ files' = SaveFile(files, u, page_title, content)
                /\ all_pages' = Put(all_pages, canon1[u], <<page_title, content>>)
                /\ to_crawl' = c.to_crawl
                /\ visited' = c.visited
                /\ canonical_urls' = c.canonical_urls
                /\ next_level_urls' = next_level_urls \o c.new_urls
                /\ total_urls' = total_urls + Len(c.new_urls)
    /\ UNCHANGED <<pc, start_url, max_depth, max_concurrency, url_scope, base_domain,
                   current_level_urls, current_depth, pending, inflight, returned, fetch_log>>
    /\ UNCHANGED <<norm_vars, main_vars, rounds>>

\* one iteration of the async for: process_result, all_pages, collect_links
ProcessResult(u, r) ==
    /\ pc = "level"
    /\ u \in ready
    /\ ready' = ready \ {u}
    /\ processed_urls' = processed_urls + 1
    /\ IF ~r.success \/ ~r.has_md
       THEN \* process_result returns None before save_page
            /\ outcome' = Record(outcome, u, "Failed", <<>>)
                    /\ UNCHANGED <<content_fingerprints, canonical_urls, files, visited, to_crawl,
                           next_level_urls, all_pages, total_urls>>
       ELSE IF IsDuplicate(content_fingerprints, page_content(r.md, r.links))
       THEN \* save_page returns None
            /\ outcome' = Record(outcome, u, "Duplicate", page_content(r.md, r.links))
                    /\ UNCHANGED <<content_fingerprints, canonical_urls, files, visited, to_crawl,
                           next_level_urls, all_pages, total_urls>>
       ELSE LET content == page_content(r.md, r.links)
                page_title == SiteTitle(u)
                canon1 == Put(canonical_urls, u, Normalized(u))
                c == collect_links(r.links, current_depth, max_depth, to_crawl, visited,
                                   canon1, url_scope, base_domain)
            IN  /\ outcome' = Record(outcome, u, "Accepted", content)
                /\ content_fingerprints' =
                       content_fingerprints \cup { get_content_fingerprint(content) }
                /\ files' = SaveFile(files, u, page_title, content)
                /\ all_pages' = Put(all_pages, canon1[u], <<page_title, content>>)
                /\ to_crawl' = c.to_crawl
                /\ visited' = c.visited
                /\ canonical_urls' = c.canonical_urls
                /\ next_level_urls' = next_level_urls \o c.new_urls
                /\ total_urls' = total_urls + Len(c.new_urls)
    /\ UNCHANGED <<pc, start_url, max_depth, max_concurrency, url_scope, base_domain,
                   current_level_urls, current_depth, pending, inflight, returned, fetch_log>>
    /\ UNCHANGED <<norm_vars, main_vars, rounds>>

\* a faulty level switch: it does not wait for the fetches still running or unprocessed
LevelEndEarly ==
    /\ pc = "level"
    /\ pending = <<>>
    /\ current_level_urls' = next_level_urls
    /\ current_depth' = current_depth + 1
    /\ pc' = "loop"
    /\ UNCHANGED <<start_url, max_depth, max_concurrency, url_scope, base_domain,
                   content_fingerprints, canonical_urls, files, visited, to_crawl,
                   next_level_urls, all_pages, total_urls, processed_urls, pending,
                   inflight, ready, returned, fetch_log, outcome>>
    /\ UNCHANGED <<norm_vars, main_vars, rounds>>

\* a faulty level switch: current_depth is not incremented
LevelEndSameDepth ==
    /\ pc = "level"
    /\ pending = <<>> /\ inflight = {} /\ ready = {}
    /\ current_level_urls' = next_level_urls
    /\ pc' = "loop"
    /\ UNCHANGED <<start_url, max_depth, max_concurrency, url_scope, base_domain,
                   content_fingerprints, canonical_urls, files, visited, to_crawl,
                   next_level_urls, current_depth, all_pages, total_urls, processed_urls,
                   pending, inflight, ready, returned, fetch_log, outcome>>
    /\ UNCHANGED <<norm_vars, main_vars, rounds>>

\* arun_many is exhausted: the next level becomes the current one
LevelEnd ==
    /\ pc = "level"
    /\ pending = <<>> /\ inflight = {} /\ ready = {}
    /\ current_level_urls' = next_level_urls
    /\ current_depth' = current_depth + 1
    /\ pc' = "loop"
    /\ UNCHANGED <<start_url, max_depth, max_concurrency, url_scope, base_domain,
                   content_fingerprints, canonical_urls, files, visited, to_crawl,
                   next_level_urls, all_pages, total_urls, processed_urls, pending,
                   inflight, ready, returned, fetch_log, outcome>>
    /\ UNCHANGED <<norm_vars, main_vars, rounds>>

\* the loop condition fails: crawl_website returns read_all_pages(). The directory holds
\* the records of this run and what it held before the run: no step of the run reads the
\* directory or writes StaleUrl's file, so what it held is chosen here, where it is read.
Finish ==
    /\ pc = "loop"
    /\ ~(current_level_urls # <<>> /\ current_depth <= max_depth)
    /\ returned' \in ReadBacks(files) \cup ReadBacks(Merge(files, StaleFiles))
    /\ pc' = "done"
    /\ UNCHANGED <<start_url, max_depth, max_concurrency, url_scope, base_domain,
                   content_fingerprints, canonical_urls, files, visited, to_crawl,
                   current_level_urls, next_level_urls, current_depth, all_pages,
                   total_urls, processed_urls, pending, inflight, ready, fetch_log, outcome>>
    /\ UNCHANGED <<norm_vars, main_vars, rounds>>

Next ==
    \/ CrawlStart
    \/ LevelStart
    \/ StartFetch
    \/ \E u \in inflight : FetchDone(u)
    \/ \E u \in ready : \E r \in Results(u) : ProcessResult(u, r)
    \/ LevelEnd
    \/ Finish

Spec == Init /\ [][Next]_vars

\* the steps of crawl_website inside and up to its while loop
Crawling ==
    \/ CrawlStart
    \/ LevelStart
    \/ StartFetch
    \/ \E u \in inflight : FetchDone(u)
    \/ \E u \in ready : \E r \in Results(u) : ProcessResult(u, r)
    \/ LevelEnd

\* the while condition is false and the coroutine runs on to its return statement; which
\* mapping read_all_pages() returns there is no matter of scheduling, so the step is
\* described by the position alone
LoopExit ==
    /\ pc = "loop"
    /\ ~(current_level_urls # <<>> /\ current_depth <= max_depth)
    /\ pc' = "done"

\* the crawl when arun_many yields a result for every URL it was given and then ends, and
\* the event loop keeps running the coroutine
FairSpec == Init /\ [][Next]_vars /\ WF_vars(Crawling) /\ WF_pc(LoopExit)

(***************************************************************************)
(* normalize_url on its own: the strings it is applied to and the values   *)
(* it returns.                                                             *)
(***************************************************************************)

\* longest tail appended to a prefix to form an input of normalize_url
MaxTail == 2

\* the characters of the tails
TailChars == {"a", "/", ":", "#", "?"}

\* the strings over TailChars of length at most n
RECURSIVE Tails(_)
Tails(n) ==
    IF n = 0 THEN { <<>> }
    ELSE LET shorter == Tails(n - 1)
         IN  shorter \cup { Append(t, c) : t \in { s \in shorter : Len(s) = n - 1 }, c \in TailChars }

\* how the inputs start: no scheme, a scheme alone, a scheme and a host, a path too
Prefixes == { <<>>, HTTP \o <<":">>, HostA, HostA \o <<"/","x">> }

\* the inputs of normalize_url
NormInputs == { p \o t : p \in Prefixes, t \in Tails(MaxTail) }

\* an absolute URL: urlparse finds a scheme and a host
IsAbsolute(url) == urlparse(url).scheme # <<>> /\ urlparse(url).netloc # <<>>

\* no crawl under way
CrawlOff ==
    /\ pc = "off"
    /\ start_url = <<>>
    /\ max_depth = 0
    /\ max_concurrency = 1
    /\ url_scope = <<>>
    /\ files = EmptyMap
    /\ base_domain = <<>>
    /\ content_fingerprints = {}
    /\ canonical_urls = EmptyMap
    /\ visited = {}
    /\ to_crawl = <<>>
    /\ current_level_urls = <<>>
    /\ next_level_urls = <<>>
    /\ current_depth = 0
    /\ all_pages = EmptyMap
    /\ total_urls = 0
    /\ processed_urls = 0
    /\ pending = <<>>
    /\ inflight = {}
    /\ ready = {}
    /\ returned = EmptyMap
    /\ fetch_log = <<>>
    /\ outcome = EmptyMap
    /\ rounds = <<>>

NormInit ==
    /\ CrawlOff
    /\ MainIdle
    /\ n_in \in NormInputs
    /\ n_out = [once |-> <<>>, twice |-> <<>>, frag |-> <<>>, slash |-> <<>>]
    /\ n_pc = "start"

\* normalize_url(u)
NormOnce ==
    /\ n_pc = "start"
    /\ n_out' = [n_out EXCEPT !.once = normalize_url(n_in)]
    /\ n_pc' = "once"
    /\ UNCHANGED <<n_in, crawl_vars, main_vars>>

\* normalize_url(normalize_url(u))
NormTwice ==
    /\ n_pc = "once"
    /\ n_out' = [n_out EXCEPT !.twice = normalize_url(n_out.once)]
    /\ n_pc' = "twice"
    /\ UNCHANGED <<n_in, crawl_vars, main_vars>>

\* normalize_url(u + '#a') and normalize_url(u + '/')
NormVariants ==
    /\ n_pc = "twice"
    /\ n_out' = [n_out EXCEPT !.frag = normalize_url(n_in \o <<"#", "a">>),
                              !.slash = normalize_url(n_in \o <<"/">>)]
    /\ n_pc' = "done"
    /\ UNCHANGED <<n_in, crawl_vars, main_vars>>

NormNext == NormOnce \/ NormTwice \/ NormVariants

NormSpec == NormInit /\ [][NormNext]_vars

(***************************************************************************)
(* Properties of crawl_website.                                            *)
(***************************************************************************)

\* the URLs whose fetch was started, in order
LogUrls == [i \in 1 .. Len(fetch_log) |-> fetch_log[i][1]]

\* the list s holds no element twice
NoDup(s) == \A i, j \in 1 .. Len(s) : s[i] = s[j] => i = j

\* every entry put in a level list so far, in order: the levels fetched, the rest of the
\* current level and the level being collected
FrontierEntries ==
    IF pc = "level" THEN LogUrls \o pending \o next_level_urls
    ELSE LogUrls \o current_level_urls

\* the depth at which the fetch of url started
FetchDepth(url) ==
    fetch_log[CHOOSE i \in 1 .. Len(fetch_log) : fetch_log[i][1] = url][2]

\* a result of url ended with the given outcome
Ended(url, kind) ==
    url \in DOMAIN outcome /\ \E i \in 1 .. Len(outcome[url]) : outcome[url][i][1] = kind

\* the hrefs of the reference section of the page stored for url
StoredRefs(url) == Range(files[get_safe_filename(Normalized(url))].content[3])

\* the pages whose result was accepted when fetched below max_depth: collect_links went
\* through their links
Collected == { p \in DOMAIN outcome : Ended(p, "Accepted") /\ FetchDepth(p) < max_depth }

\* the normalized URLs the frontier holds in any of its forms
InFrontier == visited \cup Range(to_crawl) \cup Range(FrontierEntries)

\* C1: each normalized URL is appended to the frontier at most once. to_crawl and the
\* level lists hold no URL twice, they hold the same URLs, and these are the visited
\* set, so that a link whose normalized URL is in visited adds no entry.
C1_NoDuplicateEnqueue ==
    /\ NoDup(to_crawl)
    /\ NoDup(FrontierEntries)
    /\ Range(FrontierEntries) = Range(to_crawl)
    /\ visited = Range(to_crawl)

\* C1 happens: a collected page links to a URL fetched at an earlier depth, and two
\* pages of one level link to the same URL of the next level
C1_Witness ==
    /\ \E p \in Collected : \E h \in StoredRefs(p) :
           /\ Normalized(h) \in Range(LogUrls)
           /\ FetchDepth(Normalized(h)) < FetchDepth(p)
    /\ \E p, q \in Collected :
           /\ p # q
           /\ FetchDepth(p) = FetchDepth(q)
           /\ \E hp \in StoredRefs(p), hq \in StoredRefs(q) :
                  /\ Normalized(hp) = Normalized(hq)
                  /\ Normalized(hp) \in Range(next_level_urls)

\* C2: no URL deeper than max_depth is enqueued or fetched. Every fetch started at a
\* depth of at most max_depth, every URL of visited and to_crawl is fetched or waits
\* in a level list of depth at most max_depth, and with max_depth = 0 the normalized
\* start URL is the only URL enqueued or fetched.
C2_DepthBound ==
    /\ \A i \in 1 .. Len(fetch_log) : fetch_log[i][2] <= max_depth
    /\ \A v \in visited \cup Range(to_crawl) :
           \/ v \in Range(LogUrls)
           \/ pc = "level" /\ v \in Range(pending) /\ current_depth <= max_depth
           \/ pc = "level" /\ v \in Range(next_level_urls) /\ current_depth + 1 <= max_depth
           \/ pc # "level" /\ v \in Range(current_level_urls) /\ current_depth <= max_depth
    /\ (max_depth = 0 /\ pc # "new") =>
           /\ visited = { Normalized(start_url) }
           /\ to_crawl = << Normalized(start_url) >>
           /\ Range(LogUrls) \subseteq { Normalized(start_url) }

\* C2 happens: the run is over and a page accepted at depth max_depth >= 1 carries a
\* link into the scope whose URL was never enqueued
C2_Witness ==
    /\ pc = "done"
    /\ max_depth >= 1
    /\ \E p \in DOMAIN outcome :
           /\ Ended(p, "Accepted")
           /\ FetchDepth(p) = max_depth
           /\ \E h \in StoredRefs(p) :
                  /\ InScope(Normalized(h), url_scope, base_domain)
                  /\ Normalized(h) \notin visited

ContentOf(url) == outcome[url][1][2]

\* C4: when the run is over, of two distinct fetched URLs whose results carried page
\* content with the same fingerprint exactly one is a key of the returned mapping.
C4_OneOfEqualContent ==
    pc = "done" =>
        \A u1, u2 \in DOMAIN outcome :
            (/\ u1 # u2
             /\ ~Ended(u1, "Failed") /\ ~Ended(u2, "Failed")
             /\ get_content_fingerprint(ContentOf(u1)) = get_content_fingerprint(ContentOf(u2)))
            => ((u1 \in DOMAIN returned) # (u2 \in DOMAIN returned))

\* C5: when the run is over, for URLs A, B, C fetched at the same depth, A and C
\* accepted and B failed, A and C are keys of the returned mapping and B is not.
C5_PartialFailure ==
    pc = "done" =>
        \A a, b, c \in DOMAIN outcome :
            (/\ a # c
             /\ FetchDepth(a) = FetchDepth(b) /\ FetchDepth(b) = FetchDepth(c)
             /\ Ended(a, "Accepted") /\ Ended(c, "Accepted") /\ Ended(b, "Failed"))
            => (a \in DOMAIN returned /\ c \in DOMAIN returned /\ b \notin DOMAIN returned)

C7_LevelsInSequence ==
    /\ \A u \in inflight \cup ready : <<u, current_depth>> \in Range(fetch_log)
    /\ \A i \in 1 .. Len(fetch_log) :
           /\ fetch_log[i][2] <= current_depth
           /\ fetch_log[i][2] < current_depth => fetch_log[i][1] \in DOMAIN outcome
           /\ \A j \in 1 .. Len(fetch_log) : i < j => fetch_log[i][2] <= fetch_log[j][2]
    /\ \A v \in Range(to_crawl) :
           \/ v \in Range(LogUrls)
           \/ pc = "level" /\ v \in Range(pending) \cup Range(next_level_urls)
           \/ pc # "level" /\ v \in Range(current_level_urls)

\* C7 happens: below the first level, one result waits, one fetch runs, one URL waits
C7_Witness ==
    /\ current_depth >= 1
    /\ inflight # {} /\ ready # {} /\ pending # <<>>

\* C8: every URL of the frontier is fetched once and gets one outcome. No URL is in
\* the log of fetches twice, a fetched URL is running, waiting to be processed or has
\* exactly one outcome, only frontier URLs are fetched, and when the run is over every
\* frontier URL has its outcome.
C8_ExactlyOnce ==
    /\ NoDup(LogUrls)
    /\ Range(LogUrls) \subseteq Range(to_crawl)
    /\ Range(LogUrls) = inflight \cup ready \cup DOMAIN outcome
    /\ inflight \cap ready = {}
    /\ DOMAIN outcome \cap (inflight \cup ready) = {}
    /\ \A u \in DOMAIN outcome :
           /\ Len(outcome[u]) = 1
           /\ outcome[u][1][1] \in {"Accepted", "Duplicate", "Failed"}
    /\ pc = "done" => DOMAIN outcome = Range(to_crawl)

\* C8 happens: the run is over, four URLs were queued and each outcome occurred
C8_Witness ==
    /\ pc = "done"
    /\ Len(to_crawl) >= 4
    /\ \A kind \in {"Accepted", "Duplicate", "Failed"} : \E u \in DOMAIN outcome : Ended(u, kind)

(***************************************************************************)
(* Properties of normalize_url.                                            *)
(***************************************************************************)

\* C9: for an absolute URL u, normalize_url(u + '#a') and normalize_url(u + '/') both
\* equal normalize_url(u).
C9_FragmentAndSlashEqual ==
    (n_pc = "done" /\ IsAbsolute(n_in)) =>
        (n_out.frag = n_out.once /\ n_out.slash = n_out.once)

\* C10: normalize_url(normalize_url(u)) = normalize_url(u) for every input string u.
C10_Idempotent ==
    n_pc \in {"twice", "done"} => n_out.twice = n_out.once

(***************************************************************************)
(* The worked example of the frontier at depth 1.                          *)
(***************************************************************************)

\* the run of the example: the site root is the start URL, max_depth is 1, the scope is the
\* default one, and the root page was accepted with links to /x, /x#f and a page on another host
C11_Scenario ==
    /\ Normalized(start_url) = Home
    /\ max_depth = 1
    /\ url_scope = HostA
    /\ Home \in DOMAIN outcome
    /\ Ended(Home, "Accepted")
    /\ files[get_safe_filename(Home)].content[3]
           = << PageX, PageX \o <<"#","f">>, HostB \o <<"/","x">> >>

\* C11: in the run of the example the level collected for depth 1, the level dispatched at
\* depth 1 and the fetches started at depth 1 are exactly the one-element list
\* [normalize_url(/x)]: the other host's link is dropped and /x#f collapses into /x.
C11_DepthOneLevel ==
    C11_Scenario =>
        /\ current_depth = 0 => next_level_urls = << normalize_url(PageX) >>
        /\ current_depth = 1 => current_level_urls = << normalize_url(PageX) >>
        /\ \A i \in 1 .. Len(fetch_log) :
               fetch_log[i][2] = 1 => fetch_log[i][1] = normalize_url(PageX)
        /\ current_depth > 1 => << normalize_url(PageX), 1 >> \in Range(fetch_log)

\* the run of the example after its level at depth 1 was fetched
C11_Witness ==
    /\ C11_Scenario
    /\ start_url = Home
    /\ pc = "done"
    /\ << PageX, 1 >> \in Range(fetch_log)

(***************************************************************************)
(* The page store on its own: save_page called with any URL, title and     *)
(* content, then read_all_pages.                                           *)
(***************************************************************************)

\* most save_page calls before read_all_pages
MaxSaves == 2

\* the url arguments of save_page: a page, the same page with a fragment, another page
StoreUrls == { PageX, PageX \o <<"#","f">>, PageY \o <<"?","q">> }

\* the title arguments: None or empty (written ""), or a title
StoreTitles == { "", "T" }

\* the content arguments: the empty string, a page without body, a page with a body
StoreContents == { <<>>, page_content("", <<>>), page_content("m1", <<>>) }

\* the number of save_page calls recorded in o under the given keys
RECURSIVE Calls(_, _)
Calls(o, keys) ==
    IF keys = {} THEN 0
    ELSE LET k == CHOOSE x \in keys : TRUE
         IN  Len(o[k]) + Calls(o, keys \ {k})

\* a WebsiteCrawler after setup_pages_directory, on a directory that is new or holds the
\* record of an earlier run
StoreInit ==
    /\ pc = "store"
    /\ files \in { EmptyMap, StaleFiles }
    /\ start_url = <<>>
    /\ max_depth = 0
    /\ max_concurrency = 1
    /\ url_scope = <<>>
    /\ base_domain = <<>>
    /\ content_fingerprints = {}
    /\ canonical_urls = EmptyMap
    /\ visited = {}
    /\ to_crawl = <<>>
    /\ current_level_urls = <<>>
    /\ next_level_urls = <<>>
    /\ current_depth = 0
    /\ all_pages = EmptyMap
    /\ total_urls = 0
    /\ processed_urls = 0
    /\ pending = <<>>
    /\ inflight = {}
    /\ ready = {}
    /\ returned = EmptyMap
    /\ fetch_log = <<>>
    /\ outcome = EmptyMap
    /\ rounds = <<>>
    /\ NormIdle
    /\ MainIdle

\* save_page(url, title, content); outcome records under the normalized URL whether a
\* path was returned ("Accepted") or None ("Duplicate")
SavePage(url, title, content) ==
    /\ pc = "store"
    /\ Calls(outcome, DOMAIN outcome) < MaxSaves
    /\ IF IsDuplicate(content_fingerprints, content)
       THEN /\ outcome' = Record(outcome, Normalized(url), "Duplicate", content)
            /\ UNCHANGED <<content_fingerprints, canonical_urls, files>>
       ELSE /\ outcome' = Record(outcome, Normalized(url), "Accepted", content)
            /\ content_fingerprints' =
                   content_fingerprints \cup { get_content_fingerprint(content) }
            /\ canonical_urls' = Put(canonical_urls, url, Normalized(url))
            /\ files' = SaveFile(files, url, title, content)
    /\ UNCHANGED <<pc, start_url, max_depth, max_concurrency, url_scope, base_domain,
                   visited, to_crawl, current_level_urls, next_level_urls, current_depth,
                   all_pages, total_urls, processed_urls, pending, inflight, ready,
                   returned, fetch_log>>
    /\ UNCHANGED <<norm_vars, main_vars, rounds>>

\* save_page(url, title, content) raises while writing the record (open or json.dump,
\* lines 183-184): the fingerprint and the canonical URL are already recorded, the file is
\* untouched or left part-written, and the exception ends the crawl
SavePageRaises(url, title, content) ==
    /\ pc = "store"
    /\ Calls(outcome, DOMAIN outcome) < MaxSaves
    /\ ~IsDuplicate(content_fingerprints, content)
    /\ outcome' = Record(outcome, Normalized(url), "Raised", content)
    /\ content_fingerprints' = content_fingerprints \cup { get_content_fingerprint(content) }
    /\ canonical_urls' = Put(canonical_urls, url, Normalized(url))
    /\ files' \in { files, Put(files, get_safe_filename(Normalized(url)), PartialRecord(url)) }
    /\ pc' = "failed"
    /\ UNCHANGED <<start_url, max_depth, max_concurrency, url_scope, base_domain,
                   visited, to_crawl, current_level_urls, next_level_urls, current_depth,
                   all_pages, total_urls, processed_urls, pending, inflight, ready,
                   returned, fetch_log>>
    /\ UNCHANGED <<norm_vars, main_vars, rounds>>

\* read_all_pages(), during the run or after a write failure ended it
ReadAllPages ==
    /\ pc \in { "store", "failed" }
    /\ returned' \in ReadBacks(files)
    /\ pc' = "read"
    /\ UNCHANGED <<start_url, max_depth, max_concurrency, url_scope, base_domain,
                   content_fingerprints, canonical_urls, files, visited, to_crawl,
                   current_level_urls, next_level_urls, current_depth, all_pages,
                   total_urls, processed_urls, pending, inflight, ready, fetch_log, outcome>>
    /\ UNCHANGED <<norm_vars, main_vars, rounds>>

StoreNext ==
    \/ \E url \in StoreUrls : \E title \in StoreTitles : \E content \in StoreContents :
           SavePage(url, title, content)
    \/ \E url \in StoreUrls : \E title \in StoreTitles : \E content \in StoreContents :
           SavePageRaises(url, title, content)
    \/ ReadAllPages

StoreSpec == StoreInit /\ [][StoreNext]_vars

\* the content of the first save_page call under the normalized URL n that returned a path
FirstStored(n) ==
    outcome[n][CHOOSE i \in 1 .. Len(outcome[n]) :
                   /\ outcome[n][i][1] = "Accepted"
                   /\ \A j \in 1 .. i - 1 : outcome[n][j][1] # "Accepted"][2]

\* C12: the page store is read-back-complete. On a directory that was empty when the
\* crawler was set up, every page for which save_page returned a path is a key of the
\* mapping a later read_all_pages returns, whatever title it was saved with (and with
\* any content that is not the empty string).
C12_ReadBackComplete ==
    (pc = "read" /\ get_safe_filename(StaleUrl) \notin DOMAIN files) =>
        \A n \in DOMAIN outcome :
            (Ended(n, "Accepted") /\ files[get_safe_filename(n)].content # <<>>)
                => n \in DOMAIN returned

\* C13: storing is first-writer-wins per normalized URL. The record stored under a
\* normalized URL keeps the content of the first save_page call that stored it, whatever
\* later calls for URLs with the same normalized URL carry.
C13_FirstWriterWins ==
    pc = "store" =>
        \A n \in DOMAIN outcome :
            Ended(n, "Accepted") => files[get_safe_filename(n)].content = FirstStored(n)

(***************************************************************************)
(* async_main around the crawl (src/main.py) and the document assembled    *)
(* by MarkdownGenerator.generate_markdown (src/markdown_generator.py).     *)
(***************************************************************************)

\* the position of a title in the order of Python's str comparison, on the modelled titles
TitleRank(title) == IF title = "S" THEN 1 ELSE 2

\* the lists sorted(..., key=lambda x: x[1]) can give for the pages under the given URLs:
\* ascending titles, pages of equal title in the order of the dict, which is the order of glob
SortedPages(pages, urls) ==
    { o \in Orders(urls) :
        \A i, j \in 1 .. Len(o) :
            i < j => TitleRank(pages[o[i]][1]) <= TitleRank(pages[o[j]][1]) }

\* the entries written for the home page: one when start_url is a key of pages
HomeEntries(pages, start) ==
    IF start \in DOMAIN pages THEN << [label |-> "HOME", url |-> start] >> ELSE <<>>

\* the entries written for the other pages, in the given order, each under its title
PageEntries(pages, order) ==
    [i \in 1 .. Len(order) |-> [label |-> pages[order[i]][1], url |-> order[i]]]

\* a faulty generate_markdown: the other pages leave out the normalized start URL as well
generate_markdown_norm(pages, start) ==
    { [written |-> TRUE,
       toc |-> HomeEntries(pages, start) \o PageEntries(pages, order),
       body |-> HomeEntries(pages, start) \o PageEntries(pages, order)] :
          order \in SortedPages(pages, DOMAIN pages \ {start, Normalized(start)}) }

\* the documents generate_markdown(pages, start_url, url_scope, depth) can write for a
\* non-empty pages: the table of contents and the body list the same entries
generate_markdown(pages, start) ==
    { [written |-> TRUE,
       toc |-> HomeEntries(pages, start) \o PageEntries(pages, order),
       body |-> HomeEntries(pages, start) \o PageEntries(pages, order)] :
          order \in SortedPages(pages, DOMAIN pages \ {start}) }

\* the user interrupts the run while crawl_website awaits the fetches: the cancellation
\* is raised in the async for, nothing in crawl_website, async_main (except Exception) or
\* main catches it, and the process ends with the interrupt's status
Interrupt ==
    /\ pc = "level"
    /\ pc' = "aborted"
    /\ exit_code' = 130
    /\ UNCHANGED <<start_url, max_depth, max_concurrency, url_scope, base_domain,
                   content_fingerprints, canonical_urls, files, visited, to_crawl,
                   current_level_urls, next_level_urls, current_depth, all_pages,
                   total_urls, processed_urls, pending, inflight, ready, returned,
                   fetch_log, outcome, document>>
    /\ UNCHANGED <<norm_vars, rounds>>

\* an Exception escapes crawl_website: async_main logs it and returns 1
CrawlRaises ==
    /\ pc = "level"
    /\ pc' = "exit"
    /\ exit_code' = 1
    /\ UNCHANGED <<start_url, max_depth, max_concurrency, url_scope, base_domain,
                   content_fingerprints, canonical_urls, files, visited, to_crawl,
                   current_level_urls, next_level_urls, current_depth, all_pages,
                   total_urls, processed_urls, pending, inflight, ready, returned,
                   fetch_log, outcome, document>>
    /\ UNCHANGED <<norm_vars, rounds>>

\* async_main after crawl_website returned: the document is generated when pages is not
\* empty, a warning is logged otherwise, and 0 is returned either way
Assemble ==
    /\ pc = "done"
    /\ IF returned # EmptyMap
       THEN document' \in generate_markdown(returned, start_url)
       ELSE UNCHANGED document
    /\ exit_code' = 0
    /\ pc' = "exit"
    /\ UNCHANGED <<start_url, max_depth, max_concurrency, url_scope, base_domain,
                   content_fingerprints, canonical_urls, files, visited, to_crawl,
                   current_level_urls, next_level_urls, current_depth, all_pages,
                   total_urls, processed_urls, pending, inflight, ready, returned,
                   fetch_log, outcome>>
    /\ UNCHANGED <<norm_vars, rounds>>

RunNext ==
    \/ CrawlStart
    \/ LevelStart
    \/ StartFetch
    \/ \E u \in inflight : FetchDone(u)
    \/ \E u \in ready : \E r \in Results(u) : ProcessResult(u, r)
    \/ LevelEnd
    \/ Finish
    \/ Interrupt
    \/ CrawlRaises
    \/ Assemble

\* the whole program: the crawl, what can end it early, and the assembly of the document
RunSpec == Init /\ [][RunNext]_vars

\* the records in the pages directory that read_all_pages turns into pages
Readable == { f \in DOMAIN files : files[f].title # "" }

\* C14: an interrupt during the crawl does not lose the completed work. When the run was
\* interrupted, the pages stored so far are returned by crawl_website and the document
\* is produced from them.
C14_InterruptKeepsWork ==
    (pc = "aborted" /\ Readable # {}) =>
        /\ \A f \in Readable : files[f].normalized_url \in DOMAIN returned
        /\ document.written

\* C15: a run that ends with no accepted page is reported as a failure: its exit status
\* is not the status 0 of a run with an accepted page.
C15_NoPageIsFailure ==
    (pc = "exit" /\ \A u \in DOMAIN outcome : ~Ended(u, "Accepted")) => exit_code # 0

\* C16: when the start page was accepted and read back, the document's table of contents
\* and body begin with the home entry, for every start URL, and the entries after it
\* are in ascending order of title.
C16_StartPageFirst ==
    (pc = "exit" /\ document.written /\ Normalized(start_url) \in DOMAIN returned) =>
        /\ document.toc[1].label = "HOME"
        /\ document.body[1].label = "HOME"
        /\ \A i, j \in 2 .. Len(document.toc) :
               i < j => TitleRank(document.toc[i].label) <= TitleRank(document.toc[j].label)

(***************************************************************************)
(* Further properties of crawl_website.                                    *)
(***************************************************************************)

\* C17: the query string is dropped for identity only. For a link that collect_links
\* queued and that carries a query, the URL given to the fetcher is the href as
\* discovered, query included, while the key it is deduplicated under has no query.
C17_FetchKeepsQuery ==
    \A p \in Collected : \A href \in StoredRefs(p) :
        ( /\ href \in DOMAIN canonical_urls
          /\ Parsed(href).query # <<>>
          /\ canonical_urls[href] \in Range(LogUrls) )
        => /\ Parsed(canonical_urls[href]).query = <<>>
           /\ href \in Range(LogUrls)

(***************************************************************************)
(* convert_to_markdown (src/markdown_converter.py) on its own.             *)
(***************************************************************************)

\* the url arguments
ConvUrls == { Home, PageX, PageY \o <<"?","q">> }

\* the html arguments, by what the steps of the function do on them. type: None, bytes
\* or str. title: the parsed page has a <title> with a string, none, or a <title> whose
\* string is None. h2t, mid: HTML2Text.handle and the MarkItDown branch return text
\* ("ok"), raise, or (MarkItDown) return an empty result. len(None) raises; on bytes both
\* converters raise (handle and temp.write need a str).
ConvHtmls ==
    { [type |-> "None", title |-> "none", h2t |-> "raises", mid |-> "raises"] }
    \cup { [type |-> "bytes", title |-> t, h2t |-> "raises", mid |-> "raises"] :
              t \in { "string", "none", "None" } }
    \cup { [type |-> "str", title |-> t, h2t |-> h, mid |-> m] :
              t \in { "string", "none", "None" }, h \in { "ok", "raises" },
              m \in { "ok", "empty", "raises" } }

\* title of lines 34-40: soup.title.string.strip() when there is a <title>, url when
\* there is none or when .strip() fails on a None string
ConvTitle(url, html) == IF html.title = "string" THEN <<"T">> ELSE url

\* markdown_content of lines 43-81: html2text's text, else MarkItDown's, else the
\* basic content naming the URL
ConvBody(url, html) ==
    IF html.h2t = "ok" THEN [kind |-> "html2text", url |-> <<>>]
    ELSE IF html.mid = "ok" THEN [kind |-> "markitdown", url |-> <<>>]
    ELSE [kind |-> "placeholder", url |-> url]

\* convert_to_markdown(url, html): the exception of len(html) at line 30, before the
\* try, or the metadata header followed by markdown_content
convert_to_markdown(url, html) ==
    IF html.type = "None"
    THEN [raised |-> TRUE, title |-> <<>>, url |-> <<>>,
          body |-> [kind |-> "none", url |-> <<>>]]
    ELSE [raised |-> FALSE, title |-> ConvTitle(url, html), url |-> url,
          body |-> ConvBody(url, html)]

ConvInit ==
    /\ CrawlOff
    /\ MainIdle
    /\ n_in \in [url : ConvUrls, html : ConvHtmls]
    /\ n_out = [raised |-> FALSE, title |-> <<>>, url |-> <<>>,
                body |-> [kind |-> "none", url |-> <<>>]]
    /\ n_pc = "called"

\* the call returns or raises
ConvCall ==
    /\ n_pc = "called"
    /\ n_out' = convert_to_markdown(n_in.url, n_in.html)
    /\ n_pc' = "ended"
    /\ UNCHANGED <<n_in, crawl_vars, main_vars>>

ConvNext == ConvCall

ConvSpec == ConvInit /\ [][ConvNext]_vars

\* C18: convert_to_markdown never raises. For every url and html the call returns a
\* document that names the URL, and when neither converter produced text its body is the
\* placeholder naming the URL.
C18_NeverRaises ==
    n_pc = "ended" =>
        /\ ~n_out.raised
        /\ n_out.url = n_in.url
        /\ (n_in.html.h2t # "ok" /\ n_in.html.mid # "ok")
               => (n_out.body.kind = "placeholder" /\ n_out.body.url = n_in.url)

\* the outcome the step adds to the history of url, "" when it adds none
Added(url) ==
    IF url \in DOMAIN outcome' /\ (url \notin DOMAIN outcome \/ outcome'[url] # outcome[url])
    THEN outcome'[url][Len(outcome'[url])][1]
    ELSE ""

\* C19: only accepted results feed the next level. A step that processes a result which
\* failed, carried no markdown or was rejected as duplicate content leaves
\* next_level_urls, to_crawl and visited as they were.
C19_OnlyAcceptedFeed ==
    [][ (\E url \in DOMAIN outcome' : Added(url) \in { "Failed", "Duplicate" })
          => UNCHANGED <<next_level_urls, to_crawl, visited>> ]_vars

\* a finished run in which a result without markdown was processed below max_depth for a
\* page that can link to an in-scope URL, and the frontier never held that URL
C19_Witness ==
    /\ pc = "done"
    /\ \E u \in DOMAIN outcome :
          /\ Ended(u, "Failed")
          /\ FetchDepth(u) < max_depth
          /\ \E l \in SiteLinks(u) : \E i \in 1 .. Len(l) :
                /\ l[i] # <<>>
                /\ InScope(Normalized(l[i]), url_scope, base_domain)
                /\ Normalized(l[i]) \notin InFrontier

\* C20: a fetched page whose Markdown is empty gets the Failed outcome. No result whose
\* markdown object holds an empty fit_markdown and an empty raw_markdown is accepted or
\* compared as content, no record with an empty body is written, and none is returned.
C20_EmptyMarkdownFails ==
    /\ \A u \in DOMAIN outcome : \A i \in 1 .. Len(outcome[u]) :
           (outcome[u][i][2] # <<>> /\ outcome[u][i][2][2] = "") => outcome[u][i][1] = "Failed"
    /\ \A f \in DOMAIN files : files[f].content[2] # ""
    /\ \A n \in DOMAIN all_pages : all_pages[n][2][2] # ""

(***************************************************************************)
(* The summary crawl_website logs after the loop.                          *)
(***************************************************************************)

\* the URLs with a result of the given outcome
WithOutcome(kind) == { u \in DOMAIN outcome : Ended(u, kind) }

\* the numbers of the summary line: processed_urls, total_urls and len(all_pages)
Summary ==
    [processed |-> processed_urls, total |-> total_urls,
     pages |-> Cardinality(DOMAIN all_pages)]

\* C21: the summary gives the number of Failed URLs apart from the Duplicate and the
\* Accepted ones. The pages count is the number of accepted URLs, and what the summary
\* leaves of the processed URLs beside them is the number of failed URLs.
C21_FailedCounted ==
    pc = "done" =>
        /\ Summary.pages = Cardinality(WithOutcome("Accepted"))
        /\ Summary.processed - Summary.pages = Cardinality(WithOutcome("Failed"))

(***************************************************************************)
(* Further properties of the page store.                                   *)
(***************************************************************************)

\* C22: when save_page raises, the pages stored before stay retrievable. On a directory
\* that was empty at set-up, a read_all_pages after the failure returns every page that
\* an earlier save_page call stored (with a content that is not the empty string, and
\* under a normalized URL no later call wrote to), and the part-written record does not
\* make it fail.
C22_StoredBeforeFailureReadable ==
    (pc = "read" /\ WithOutcome("Raised") # {}
                 /\ get_safe_filename(StaleUrl) \notin DOMAIN files) =>
        \A n \in DOMAIN outcome :
            (outcome[n][Len(outcome[n])][1] = "Accepted" /\ outcome[n][Len(outcome[n])][2] # <<>>)
                => n \in DOMAIN returned

\* C27: the fingerprint set and the stored records correspond one to one. On a directory
\* that was empty at set-up, content_fingerprints is the set of the fingerprints of the
\* records in the directory, and no two records have the same fingerprint.
C27_FingerprintsMatchRecords ==
    get_safe_filename(StaleUrl) \notin DOMAIN files =>
        /\ content_fingerprints = { files[f].fingerprint : f \in DOMAIN files }
        /\ \A f, g \in DOMAIN files : files[f].fingerprint = files[g].fingerprint => f = g

(***************************************************************************)
(* Termination and frontier bookkeeping of crawl_website.                  *)
(***************************************************************************)

\* C23: the crawl loop terminates. A crawl_website call makes at most max_depth + 1
\* arun_many calls, each on a non-empty level at a depth up to max_depth; when every
\* dispatch round yields its results and ends, the call returns, and what it returns is
\* read_all_pages() on the pages directory.
C23_Terminates ==
    /\ [](rounds # <<>> => rounds[Len(rounds)] <= max_depth + 1)
    /\ [](pc = "level" => (current_level_urls # <<>> /\ current_depth <= max_depth))
    /\ [](pc = "done" => returned \in ReadBacks(files) \cup ReadBacks(Merge(files, StaleFiles)))
    /\ <>(pc = "done")

\* a call that returned after max_depth + 1 rounds, the last of them at depth max_depth
C23_Witness ==
    /\ pc = "done"
    /\ max_depth = MaxDepthBound
    /\ rounds = << max_depth + 1 >>
    /\ \E i \in 1 .. Len(fetch_log) : fetch_log[i][2] = max_depth

\* C24: the frontier bookkeeping. No step takes an element out of visited; in every state
\* visited is the set of the elements of to_crawl, to_crawl holds no element twice, and
\* total_urls is the size of visited (the links of a result are collected within the step
\* that processes the result).
C24_VisitedBookkeeping ==
    /\ [][visited \subseteq visited']_vars
    /\ [](/\ visited = Range(to_crawl)
          /\ NoDup(to_crawl)
          /\ total_urls = Cardinality(visited))

\* a finished run that queued the start URL and two collected links
C24_Witness ==
    /\ pc = "done"
    /\ Len(to_crawl) = 3
    /\ total_urls = 3

(***************************************************************************)
(* Two crawl_website calls on one WebsiteCrawler: what the instance keeps  *)
(* from the first call (content_fingerprints, canonical_urls, url_scope,   *)
(* the pages directory) and what the call sets up anew.                    *)
(***************************************************************************)

\* crawl_website calls made on one instance
MaxRuns == 2

\* the start URLs of a later call: the site root again, or a page on another host
AgainUrls == { Home, HostB \o <<"/","x">> }

\* a crawler constructed without --scope and with --depth 0: each call fetches its start page
TwoRunInit ==
    /\ Init
    /\ url_scope = <<>>
    /\ max_concurrency = 1
    /\ max_depth = 0

\* crawl_website(url) called again after an earlier call returned: the locals are set up
\* anew, the attributes of the instance are as the earlier call left them
CrawlAgain(url) ==
    /\ pc = "done"
    /\ Len(rounds) < MaxRuns
    /\ start_url' = url
    /\ url_scope' = IF url_scope = <<>>
                    THEN Parsed(url).scheme \o <<":", "/", "/">> \o Parsed(url).netloc
                    ELSE url_scope
    /\ base_domain' = Parsed(url).netloc
    /\ canonical_urls' = Put(canonical_urls, url, Normalized(url))
    /\ visited' = { Normalized(url) }
    /\ to_crawl' = << Normalized(url) >>
    /\ current_level_urls' = << Normalized(url) >>
    /\ current_depth' = 0
    /\ all_pages' = EmptyMap
    /\ total_urls' = 1
    /\ processed_urls' = 0
    /\ pc' = "loop"
    /\ rounds' = Append(rounds, 0)
    /\ UNCHANGED <<max_depth, max_concurrency, content_fingerprints, files,
                   next_level_urls, pending, inflight, ready, returned, fetch_log, outcome>>
    /\ UNCHANGED <<norm_vars, main_vars>>

TwoRunNext ==
    \/ CrawlStart
    \/ LevelStart
    \/ StartFetch
    \/ \E u \in inflight : FetchDone(u)
    \/ \E u \in ready : \E r \in Results(u) : ProcessResult(u, r)
    \/ LevelEnd
    \/ Finish
    \/ \E url \in AgainUrls : CrawlAgain(url)

TwoRunSpec == TwoRunInit /\ [][TwoRunNext]_vars

\* the scope a call on a crawler constructed without --scope derives from its start URL
DefaultScope(url) == Parsed(url).scheme \o <<":", "/", "/">> \o Parsed(url).netloc

\* C25: crawl state is per call. On a crawler constructed without --scope, the scope of
\* a call is the one derived from that call's start URL, and a page whose content was
\* accepted in the first call is accepted again when the second call fetches the same
\* content at the same URL.
C25_RunsIndependent ==
    /\ (rounds # <<>> => url_scope = DefaultScope(start_url))
    /\ \A n \in DOMAIN outcome :
           (/\ Len(outcome[n]) = 2
            /\ outcome[n][1][1] = "Accepted"
            /\ outcome[n][2][2] = outcome[n][1][2]) => outcome[n][2][1] = "Accepted"

(***************************************************************************)
(* What crawl_website returns against what the run accepted.               *)
(***************************************************************************)

\* C26: the mapping crawl_website returns has the keys of all_pages: every page accepted
\* in this run is in it, and nothing else is (a record an earlier run left in the pages
\* directory, say).
C26_ReturnedIsAccepted ==
    pc = "done" => DOMAIN returned = DOMAIN all_pages

(***************************************************************************)
(* The returned pages against the order in which the fetches of a level    *)
(* complete.                                                               *)
(***************************************************************************)

\* one site and configuration: the crawl of http://a/ at depth 1 with two fetches at a
\* time into an empty directory; the home page links to /x, /x/ and /d/y?q; /x and /d/y
\* serve the same Markdown without links, the fetch of /x/ fails
C28_Site ==
    /\ start_url = Home
    /\ max_depth = 1
    /\ max_concurrency = 2
    /\ StaleUrl \notin DOMAIN returned
    /\ DOMAIN outcome = { Home, PageX, PageXSlash, PageY }
    /\ outcome[Home] = << <<"Accepted",
                            page_content("m1", << PageX, PageXSlash, PageY \o <<"?","q">> >>)>> >>
    /\ outcome[PageXSlash] = << <<"Failed", <<>>>> >>
    /\ outcome[PageX][1][2] = page_content("m1", <<>>)
    /\ outcome[PageY][1][2] = page_content("m1", <<>>)

\* C28: the keys of the returned mapping do not depend on the order in which the fetches
\* of a level complete. On the site of C28_Site they are those of the run in which the
\* results arrive in the order of dispatch: the home page and /x.
C28_OrderIndependent ==
    (pc = "done" /\ C28_Site) => DOMAIN returned = { Home, PageX }

(***************************************************************************)
(* generate_markdown on its own: the mappings it is given and the document *)
(* it writes.                                                              *)
(***************************************************************************)

\* largest number of pages in a mapping given to generate_markdown
MaxPages == 3

\* the keys of the mappings: normalized URLs, as read_all_pages returns them
DocUrls == { Home, PageX, PageXSlash, PageY }

\* the values of the mappings: (title, content) with a title read_all_pages lets through
DocValues == { <<"S", page_content("m1", <<>>)>>, <<"T", page_content("m1", <<>>)>> }

\* the mappings {url: (title, content)} of up to MaxPages pages, the empty one included
DocPages ==
    UNION { [ks -> DocValues] : ks \in { k \in SUBSET DocUrls : Cardinality(k) <= MaxPages } }

\* a call generate_markdown(pages, start_url, url_scope, depth) about to be made; pages is
\* held in returned
DocInit ==
    /\ pc = "pages"
    /\ returned \in DocPages
    /\ start_url \in StartUrls
    /\ files = EmptyMap
    /\ max_depth = 0
    /\ max_concurrency = 1
    /\ url_scope = <<>>
    /\ base_domain = <<>>
    /\ content_fingerprints = {}
    /\ canonical_urls = EmptyMap
    /\ visited = {}
    /\ to_crawl = <<>>
    /\ current_level_urls = <<>>
    /\ next_level_urls = <<>>
    /\ current_depth = 0
    /\ all_pages = EmptyMap
    /\ total_urls = 0
    /\ processed_urls = 0
    /\ pending = <<>>
    /\ inflight = {}
    /\ ready = {}
    /\ fetch_log = <<>>
    /\ outcome = EmptyMap
    /\ rounds = <<>>
    /\ NormIdle
    /\ MainIdle

\* generate_markdown(pages, start_url, url_scope, depth): None for an empty pages, the
\* document otherwise
GenerateMarkdown ==
    /\ pc = "pages"
    /\ IF returned = EmptyMap
       THEN UNCHANGED document
       ELSE document' \in generate_markdown(returned, start_url)
    /\ pc' = "generated"
    /\ UNCHANGED <<start_url, max_depth, max_concurrency, url_scope, base_domain,
                   content_fingerprints, canonical_urls, files, visited, to_crawl,
                   current_level_urls, next_level_urls, current_depth, all_pages,
                   total_urls, processed_urls, pending, inflight, ready, returned,
                   fetch_log, outcome, exit_code>>
    /\ UNCHANGED <<norm_vars, rounds>>

DocNext ==
    \/ GenerateMarkdown

DocSpec == DocInit /\ [][DocNext]_vars

\* C29: generate_markdown loses and duplicates no page. For a non-empty pages the document
\* is written, and in its table of contents as in its body the URLs of the entries are
\* the keys of pages, each in one entry, whether or not start_url is a key.
C29_EveryPageOnce ==
    (pc = "generated" /\ returned # EmptyMap) =>
        /\ document.written
        /\ \A part \in { document.toc, document.body } :
               /\ { part[i].url : i \in 1 .. Len(part) } = DOMAIN returned
               /\ \A i, j \in 1 .. Len(part) : part[i].url = part[j].url => i = j

\* a document of MaxPages pages for the start URL written without the trailing slash,
\* which is no key, while the home page is one
C29_Witness ==
    /\ pc = "generated"
    /\ start_url = HostA
    /\ Home \in DOMAIN returned
    /\ Cardinality(DOMAIN returned) = MaxPages
    /\ Len(document.body) = MaxPages


====
